---- MODULE Spec2Model ----
(***************************************************************************)
(* keydio: keyboard sounds.  main() spawns a load/dispatch thread          *)
(* (load_and_handle_audio) and a capture thread (handle_keyboard); the     *)
(* load/dispatch thread fills the AppState sound bank, performs one        *)
(* blocking receive on the mpsc channel and builds a cpal output stream    *)
(* whose callback decodes the clip of the received event.                  *)
(***************************************************************************)
EXTENDS Integers, Sequences, FiniteSets, TLC

(***************************************************************************)
(* Bounds of the model.                                                    *)
(***************************************************************************)
\* key events the capture callbacks handle in one run
MaxSends == 2
\* invocations of the output callback in one run
MaxCalls == 2
\* frames the device requests in one callback invocation
MaxFrames == 2
\* channel count of the default output configuration
MaxChannels == 2
\* asset files that exist but cannot be opened or read, per file system
MaxFaulty == 1
\* cells of an output buffer handed to write_data on its own
MaxLen == 5

(***************************************************************************)
(* Types of the program.                                                   *)
(***************************************************************************)
SoundType == {"Backspace", "Enter", "Generic", "Space"}

KeyPressType == {"Press", "Release"}

\* device_query key codes: the three keys the program names, and one other
Keycode == {"Backspace", "Enter", "Space", "A"}

\* the (KeyPressType, SoundType) values carried by the channel
KeyEvent == KeyPressType \X SoundType

AUDIOFILE ==
    << <<"BACKSPACE.mp3", "Backspace">>,
       <<"ENTER.mp3", "Enter">>,
       <<"GENERIC_R0.mp3", "Generic">>,
       <<"GENERIC_R1.mp3", "Generic">>,
       <<"SPACE.mp3", "Space">> >>

None == << >>

Some(x) == <<x>>

(***************************************************************************)
(* The file system under assets/cherrymxbrown.  fs[dir][i] is the state of *)
(* file AUDIOFILE[i] in directory dir:                                     *)
(*   "nodir"   the directory itself is absent                              *)
(*   "absent"  the directory exists, the file does not                     *)
(*   "noopen"  the file exists, File::open fails (permission denied)       *)
(*   "noread"  the file opens, read_to_end fails                           *)
(*   "valid"   the file reads, its bytes are audio the decoder accepts     *)
(*   "garbage" the file reads, its bytes are not audio                     *)
(***************************************************************************)
Dirs == {"press", "release"}

FileKind == {"nodir", "absent", "noopen", "noread", "valid", "garbage"}

FileExists(kind) == kind \in {"noopen", "noread", "valid", "garbage"}

\* first byte of a container the decoder recognises
Magic == 77

\* a sample byte the decoder reports as an error
BadSampleByte == 9

\* the encoded samples of each asset file (bytes 0..4 encode -1.0 .. 1.0 in
\* steps of 0.5)
Payload(dir, i) ==
    IF dir = "press"
    THEN << <<4>>, <<3, 1>>, <<0, 2, 4>>, <<4, 0>>, <<1, BadSampleByte, 3>> >>[i]
    ELSE << <<0>>, <<1, 3>>, <<4, 2, 0>>, <<0, 4>>, <<3, BadSampleByte, 1>> >>[i]

\* the bytes of an existing file
FileBytes(dir, i, kind) ==
    IF kind = "garbage" THEN <<0>> \o Payload(dir, i)
    ELSE <<Magic>> \o Payload(dir, i)

\* the files of the theme: (directory, index into AUDIOFILE)
Places == Dirs \X (1..Len(AUDIOFILE))

\* the file system in which the directories of `gone` are absent, the files
\* at the places of `faults` exist but fail as faults says, and every other
\* file is as `rest` says
MkFs(gone, faults, rest) ==
    [d \in Dirs |-> [i \in 1..Len(AUDIOFILE) |->
        IF d \in gone THEN "nodir"
        ELSE IF <<d, i>> \in DOMAIN faults THEN faults[<<d, i>>]
        ELSE rest[<<d, i>>]]]

\* the sets of places at which files exist and fail
FaultSets == {T \in SUBSET Places : Cardinality(T) <= MaxFaulty}

\* the file systems the threads are run on: a theme with gaps (no press
\* ENTER, no release GENERIC_R0) and a press SPACE that is not audio; the
\* full theme with a release ENTER whose read fails; a theme without
\* release/ whose press ENTER cannot be opened
MainFs ==
    { [d \in Dirs |-> [i \in 1..Len(AUDIOFILE) |->
          IF d = "press"
          THEN <<"valid", "absent", "valid", "valid", "garbage">>[i]
          ELSE <<"valid", "valid", "absent", "valid", "valid">>[i]]],
      [d \in Dirs |-> [i \in 1..Len(AUDIOFILE) |->
          IF d = "release" /\ i = 2 THEN "noread" ELSE "valid"]],
      [d \in Dirs |-> [i \in 1..Len(AUDIOFILE) |->
          IF d = "release" THEN "nodir"
          ELSE IF i = 2 THEN "noopen" ELSE "valid"]] }

(***************************************************************************)
(* AppState and its methods.                                               *)
(***************************************************************************)
\* AppState::new
AppStateNew == [audio_press |-> << >>, audio_release |-> << >>]

\* KeyboardButtonSound::new
KeyboardButtonSound(sound_type, data) == [sound_type |-> sound_type, data |-> data]

\* File::open(&path_buf)
FileOpenOk(kind) == kind \in {"noread", "valid", "garbage"}

\* file.read_to_end(&mut buffer)
ReadToEndOk(kind) == kind # "noread"

\* AppState::load_audio_on_memory: [ok, app]
load_audio_on_memory(a, files, i, keypress) ==
    LET dir == IF keypress = "Press" THEN "press" ELSE "release"
        kind == files[dir][i]
    IN  IF FileOpenOk(kind)
        THEN IF ~ReadToEndOk(kind)
             THEN [ok |-> FALSE, app |-> a]
             ELSE LET sound == KeyboardButtonSound(AUDIOFILE[i][2],
                                                   FileBytes(dir, i, kind))
                  IN  IF dir = "press"
                      THEN [ok |-> TRUE,
                            app |-> [a EXCEPT !.audio_press = Append(@, sound)]]
                      ELSE [ok |-> TRUE,
                            app |-> [a EXCEPT !.audio_release = Append(@, sound)]]
        ELSE [ok |-> TRUE, app |-> a]

\* the n-th call of the loop of load_audio_samples: Release, then Press, of
\* each entry of AUDIOFILE
LoadCall(n) == [i |-> (n + 1) \div 2,
                keypress |-> IF n % 2 = 1 THEN "Release" ELSE "Press"]

RECURSIVE LoadFrom(_, _, _)
LoadFrom(a, files, n) ==
    IF n > 2 * Len(AUDIOFILE) THEN [ok |-> TRUE, app |-> a]
    ELSE LET r == load_audio_on_memory(a, files, LoadCall(n).i, LoadCall(n).keypress)
         IN  IF r.ok THEN LoadFrom(r.app, files, n + 1) ELSE r

\* AppState::load_audio_samples: [ok, app]
load_audio_samples(a, files) == LoadFrom(a, files, 1)

\* a search that keeps the last clip of the category instead of the first
RECURSIVE Find_last(_, _)
Find_last(sounds, sound_type) ==
    IF sounds = << >> THEN None
    ELSE IF Find_last(Tail(sounds), sound_type) # None
         THEN Find_last(Tail(sounds), sound_type)
    ELSE IF Head(sounds).sound_type = sound_type THEN Some(Head(sounds).data)
    ELSE None

RECURSIVE Find(_, _)
Find(sounds, sound_type) ==
    IF sounds = << >> THEN None
    ELSE IF Head(sounds).sound_type = sound_type THEN Some(Head(sounds).data)
    ELSE Find(Tail(sounds), sound_type)

\* get_audio_data with a fallback: a category that is not found yields the
\* first clip of the key state
get_audio_data_fallback(a, keypress) ==
    LET sounds == IF keypress[1] = "Press" THEN a.audio_press ELSE a.audio_release
    IN  IF Find(sounds, keypress[2]) = None /\ sounds # << >>
        THEN Some(Head(sounds).data)
        ELSE Find(sounds, keypress[2])

\* AppState::get_audio_data
get_audio_data(a, keypress) ==
    LET sounds == IF keypress[1] = "Press" THEN a.audio_press ELSE a.audio_release
    IN  Find(sounds, keypress[2])

(***************************************************************************)
(* Decoding and writing, as the output callback does them.                 *)
(***************************************************************************)
\* Reader::new(Cursor::new(audio)): whether the container is recognised
ReaderNewOk(bytes) == Len(bytes) >= 1 /\ bytes[1] = Magic

RECURSIVE DecodeFrom(_, _)
DecodeFrom(bytes, k) ==
    IF k > Len(bytes) THEN << >>
    ELSE IF bytes[k] \in 0..4 THEN <<bytes[k] - 2>> \o DecodeFrom(bytes, k + 1)
    ELSE DecodeFrom(bytes, k + 1)

\* reader.samples().filter_map(Result::ok).collect(): the f32 samples, in
\* halves (-2 is -1.0, 2 is 1.0); a sample that fails to decode is left out
Samples(bytes) == DecodeFrom(bytes, 2)

\* the sample formats of the model, among those stream_on_press dispatches on
SampleFormats == {"F32", "U8"}

\* T::from_sample of an f32 given in halves
from_sample(T, s) ==
    IF T = "U8"
    THEN (IF 128 + 64 * s > 255 THEN 255 ELSE 128 + 64 * s)
    ELSE s

\* Sample::EQUILIBRIUM of the format: the zero-amplitude value
Equilibrium(T) == IF T = "U8" THEN 128 ELSE 0

\* the n-th pull (from 0) of sample_iter.next().unwrap_or(0.0), sample_iter
\* being samples.into_iter().cycle() advanced from its first element
NextSample(samples, n) ==
    IF samples = << >> THEN 0 ELSE samples[(n % Len(samples)) + 1]

\* the loop of write_data over output.chunks_mut(channels), from the chunk
\* that begins at cell `first`, `pulled` values taken from next_sample so far:
\* one value per chunk, written to every cell of the chunk (the last chunk is
\* shorter when the length is no multiple of channels). A cell of the buffer
\* is None (not written) or Some(value). [output, pulled]
RECURSIVE WriteChunks(_, _, _, _, _, _)
WriteChunks(output, channels, samples, T, first, pulled) ==
    IF first > Len(output) THEN [output |-> output, pulled |-> pulled]
    ELSE LET value == from_sample(T, NextSample(samples, pulled))
             last == IF first + channels - 1 > Len(output)
                     THEN Len(output) ELSE first + channels - 1
             written == [c \in 1..Len(output) |->
                            IF c >= first /\ c <= last THEN Some(value) ELSE output[c]]
         IN  WriteChunks(written, channels, samples, T, last + 1, pulled + 1)

\* write_data that takes a value from next_sample for every cell instead of
\* every frame
write_data_per_sample(output, channels, samples, T) ==
    WriteChunks(output, 1, samples, T, 1, 0).output

\* write_data: the buffer it leaves
write_data(output, channels, samples, T) ==
    WriteChunks(output, channels, samples, T, 1, 0).output

\* write_data: the number of calls of next_sample it makes
write_data_pulls(output, channels, samples, T) ==
    WriteChunks(output, channels, samples, T, 1, 0).pulled

\* the buffer the device hands to the callback: frames * channels cells, none
\* of them written by the callback yet
Buffer(frames, channels) == [c \in 1..(frames * channels) |-> None]

\* map_key_to_sound
map_key_to_sound(key) ==
    CASE key = "Backspace" -> "Backspace"
      [] key = "Enter" -> "Enter"
      [] key = "Space" -> "Space"
      [] OTHER -> "Generic"

(***************************************************************************)
(* State.                                                                  *)
(***************************************************************************)
VARIABLES
    fs,         \* the asset files (never written by the program)
    app,        \* the AppState behind Arc<Mutex<AppState>>
    mutex,      \* "free", "loader" (held by load_and_handle_audio), "poisoned"
    mainPc,     \* main: "spawn_audio", "spawn_kb", "join_kb", "exited"
    loaderPc,   \* load_and_handle_audio: the statement it is at
    kbPc,       \* handle_keyboard: the statement it is at
    txAlive,    \* some Sender of the channel is alive
    rxAlive,    \* the Receiver of the channel is alive
    chan,       \* the events queued in the channel
    sent,       \* history: the events whose send returned Ok, in order
    sendErrs,   \* history: the sends that returned Err
    rx,         \* the value of self.rx.recv() the callback captured:
                \* << >> before line 83, <<"Ok", event>> or <<"Err">> after
    stream,     \* the cpal stream: "none", "built", "playing", "dropped"
    channels,   \* config.channels (0 before the configuration is queried)
    format,     \* config.sample_format() ("none" before)
    data,       \* the output buffer as the last callback invocation left it
    calls,      \* history: callback invocations so far
    emitted,    \* history: frames written by all callback invocations so far
    triggers,   \* history: sample sources the callback has created so far
    cbPanicked  \* a callback invocation has panicked

vars == <<fs, app, mutex, mainPc, loaderPc, kbPc, txAlive, rxAlive, chan, sent,
          sendErrs, rx, stream, channels, format, data, calls, emitted,
          triggers, cbPanicked>>

fileVars == <<fs>>
mainVars == <<mainPc>>
kbVars == <<kbPc, txAlive>>
chanVars == <<rxAlive, chan, sent, sendErrs>>
devVars == <<channels, format>>
cbVars == <<data, calls, emitted, triggers, cbPanicked>>

InitRest ==
    /\ app = AppStateNew
    /\ mutex = "free"
    /\ mainPc = "spawn_audio"
    /\ loaderPc = "unspawned"
    /\ kbPc = "unspawned"
    /\ txAlive = TRUE
    /\ rxAlive = TRUE
    /\ chan = << >>
    /\ sent = << >>
    /\ sendErrs = 0
    /\ rx = << >>
    /\ stream = "none"
    /\ channels = 0
    /\ format = "none"
    /\ data = << >>
    /\ calls = 0
    /\ emitted = 0
    /\ triggers = 0
    /\ cbPanicked = FALSE

\* main, lines 211-214
Init == fs \in MainFs /\ InitRest

\* the process runs until main ends
Running == mainPc # "exited"

(***************************************************************************)
(* main                                                                    *)
(***************************************************************************)
\* line 217
MainSpawnAudio ==
    /\ mainPc = "spawn_audio"
    /\ mainPc' = "spawn_kb"
    /\ loaderPc' = "lock"
    /\ UNCHANGED <<fs, app, mutex, kbPc, txAlive, chanVars, rx, stream, devVars, cbVars>>

\* line 221
MainSpawnKeyboard ==
    /\ mainPc = "spawn_kb"
    /\ mainPc' = "join_kb"
    /\ kbPc' = "new"
    /\ UNCHANGED <<fs, app, mutex, loaderPc, txAlive, chanVars, rx, stream, devVars, cbVars>>

\* line 225: handle_keyboard never returns, so the join ends only when the
\* capture thread has panicked; unwrap() then panics in main and the process
\* ends
MainJoinKeyboard ==
    /\ mainPc = "join_kb"
    /\ kbPc = "panicked"
    /\ mainPc' = "exited"
    /\ UNCHANGED <<fs, app, mutex, loaderPc, kbVars, chanVars, rx, stream, devVars, cbVars>>

(***************************************************************************)
(* load_and_handle_audio, AudioHandler::stream_on_press, AudioHandler::run *)
(***************************************************************************)
\* a panic of the load/dispatch thread: unwinding drops rx (and what the
\* channel still holds)
LoaderPanics ==
    /\ loaderPc' = "panicked"
    /\ rxAlive' = FALSE
    /\ chan' = << >>
    /\ UNCHANGED <<sent, sendErrs>>

\* line 237
LoaderLock ==
    /\ Running
    /\ loaderPc = "lock"
    /\ mutex = "free"
    /\ mutex' = "loader"
    /\ loaderPc' = "load"
    /\ UNCHANGED <<fs, app, mainVars, kbVars, chanVars, rx, stream, devVars, cbVars>>

\* line 238 with the load handed to a worker that has not yet run: the thread
\* moves on with the bank as it is
LoaderLoad_deferred ==
    /\ Running
    /\ loaderPc = "load"
    /\ loaderPc' = "unlock"
    /\ UNCHANGED <<fs, app, mutex, mainVars, kbVars, chanVars, rx, stream, devVars, cbVars>>

\* line 238: load_audio_samples().unwrap(), the guard held
LoaderLoad ==
    /\ Running
    /\ loaderPc = "load"
    /\ LET r == load_audio_samples(app, fs)
       IN  /\ app' = r.app
           /\ IF r.ok
              THEN /\ loaderPc' = "unlock"
                   /\ UNCHANGED <<mutex, chanVars>>
              ELSE /\ mutex' = "poisoned"
                   /\ LoaderPanics
    /\ UNCHANGED <<fs, mainVars, kbVars, rx, stream, devVars, cbVars>>

\* line 239 without the inner block of lines 236-239: the guard lives on to
\* the end of load_and_handle_audio
LoaderUnlock_kept ==
    /\ Running
    /\ loaderPc = "unlock"
    /\ loaderPc' = "device"
    /\ UNCHANGED <<fs, app, mutex, mainVars, kbVars, chanVars, rx, stream, devVars, cbVars>>

\* line 239
LoaderUnlock ==
    /\ Running
    /\ loaderPc = "unlock"
    /\ mutex' = "free"
    /\ loaderPc' = "device"
    /\ UNCHANGED <<fs, app, mainVars, kbVars, chanVars, rx, stream, devVars, cbVars>>

\* line 240: host.default_output_device()
LoaderDevice ==
    /\ Running
    /\ loaderPc = "device"
    /\ \E found \in BOOLEAN :
          loaderPc' = IF found THEN "config" ELSE "ret"
    /\ UNCHANGED <<fs, app, mutex, mainVars, kbVars, chanVars, rx, stream, devVars, cbVars>>

\* lines 241-243, 59-82: default_output_config().unwrap(), AudioHandler::new,
\* stream_on_press up to the receive
LoaderConfig ==
    /\ Running
    /\ loaderPc = "config"
    /\ \E ok \in BOOLEAN, ch \in 1..MaxChannels, T \in SampleFormats :
          IF ok
          THEN /\ channels' = ch
               /\ format' = T
               /\ loaderPc' = "recv"
               /\ UNCHANGED chanVars
          ELSE /\ LoaderPanics
               /\ UNCHANGED devVars
    /\ UNCHANGED <<fs, app, mutex, mainVars, kbVars, rx, stream, cbVars>>

\* line 83 written as self.rx.recv().unwrap(): the end of the stream panics
\* the thread
LoaderRecv_unwrap ==
    /\ Running
    /\ loaderPc = "recv"
    /\ ~(chan = << >> /\ txAlive)
    /\ IF chan # << >>
       THEN /\ rx' = <<"Ok", Head(chan)>>
            /\ chan' = Tail(chan)
            /\ loaderPc' = "build"
            /\ UNCHANGED <<rxAlive, sent, sendErrs>>
       ELSE /\ LoaderPanics
            /\ UNCHANGED rx
    /\ UNCHANGED <<fs, app, mutex, mainVars, kbVars, stream, devVars, cbVars>>

\* line 83: self.rx.recv(), blocking while the channel is empty and a Sender
\* is alive
LoaderRecv ==
    /\ Running
    /\ loaderPc = "recv"
    /\ ~(chan = << >> /\ txAlive)
    /\ IF chan # << >>
       THEN /\ rx' = <<"Ok", Head(chan)>>
            /\ chan' = Tail(chan)
       ELSE /\ rx' = <<"Err">>
            /\ UNCHANGED chan
    /\ loaderPc' = "build"
    /\ UNCHANGED <<fs, app, mutex, mainVars, kbVars, rxAlive, sent, sendErrs, stream, devVars, cbVars>>

\* lines 84-100: build_output_stream(...)?; an Err is returned through
\* stream_on_press to unwrap() at line 243
LoaderBuild ==
    /\ Running
    /\ loaderPc = "build"
    /\ \E ok \in BOOLEAN :
          IF ok
          THEN /\ stream' = "built"
               /\ loaderPc' = "play"
               /\ UNCHANGED chanVars
          ELSE /\ LoaderPanics
               /\ UNCHANGED stream
    /\ UNCHANGED <<fs, app, mutex, mainVars, kbVars, rx, devVars, cbVars>>

\* line 102: stream.play()?; on Err the stream is dropped as run returns
LoaderPlay ==
    /\ Running
    /\ loaderPc = "play"
    /\ \E ok \in BOOLEAN :
          IF ok
          THEN /\ stream' = "playing"
               /\ loaderPc' = "run_ret"
               /\ UNCHANGED chanVars
          ELSE /\ stream' = "dropped"
               /\ LoaderPanics
    /\ UNCHANGED <<fs, app, mutex, mainVars, kbVars, rx, devVars, cbVars>>

\* lines 103-104: run returns Ok(()); its local `stream` is dropped
LoaderRunReturn ==
    /\ Running
    /\ loaderPc = "run_ret"
    /\ stream' = "dropped"
    /\ loaderPc' = "ret"
    /\ UNCHANGED <<fs, app, mutex, mainVars, kbVars, chanVars, rx, devVars, cbVars>>

\* lines 244-245: load_and_handle_audio returns; audio_handler (or, without a
\* device, the parameter rx) is dropped, and the Receiver with it
LoaderReturn ==
    /\ Running
    /\ loaderPc = "ret"
    /\ loaderPc' = "done"
    /\ rxAlive' = FALSE
    /\ chan' = << >>
    /\ UNCHANGED <<fs, app, mutex, mainVars, kbVars, sent, sendErrs, rx, stream, devVars, cbVars>>

(***************************************************************************)
(* The output callback, lines 86-97, invoked by the audio subsystem while  *)
(* the stream plays.                                                       *)
(***************************************************************************)
\* the clip get_audio_data finds for the event the callback captured, if any
CapturedClip ==
    IF rx # << >> /\ rx[1] = "Ok" THEN get_audio_data(app, rx[2]) ELSE None

Callback(frames) ==
    /\ Running
    /\ stream = "playing"
    /\ ~cbPanicked
    /\ calls < MaxCalls
    /\ mutex # "loader"
    /\ calls' = calls + 1
    /\ IF rx[1] = "Ok"
       THEN IF mutex = "poisoned"
            THEN \* app.lock().unwrap() panics
                 /\ cbPanicked' = TRUE
                 /\ data' = Buffer(frames, channels)
                 /\ UNCHANGED <<mutex, emitted, triggers>>
            ELSE LET audio == get_audio_data(app, rx[2])
                 IN  IF audio = None
                     THEN /\ data' = Buffer(frames, channels)
                          /\ UNCHANGED <<mutex, emitted, triggers, cbPanicked>>
                     ELSE IF ~ReaderNewOk(audio[1])
                          THEN \* Reader::new(..).unwrap() panics, the guard held
                               /\ cbPanicked' = TRUE
                               /\ mutex' = "poisoned"
                               /\ data' = Buffer(frames, channels)
                               /\ UNCHANGED <<emitted, triggers>>
                          ELSE /\ data' = write_data(Buffer(frames, channels), channels,
                                                     Samples(audio[1]), format)
                               /\ triggers' = triggers + 1
                               /\ emitted' = emitted + frames
                               /\ UNCHANGED <<mutex, cbPanicked>>
       ELSE /\ data' = Buffer(frames, channels)
            /\ UNCHANGED <<mutex, emitted, triggers, cbPanicked>>
    /\ UNCHANGED <<fs, app, mainVars, loaderPc, kbVars, chanVars, rx, stream, devVars>>

(***************************************************************************)
(* handle_keyboard and the callbacks it registers.                         *)
(***************************************************************************)
\* line 257: DeviceState::new(); when it panics, unwinding drops tx
KbNew ==
    /\ Running
    /\ kbPc = "new"
    /\ \E ok \in BOOLEAN :
          IF ok
          THEN /\ kbPc' = "reg_up"
               /\ UNCHANGED txAlive
          ELSE /\ kbPc' = "panicked"
               /\ txAlive' = FALSE
    /\ UNCHANGED <<fs, app, mutex, mainVars, loaderPc, chanVars, rx, stream, devVars, cbVars>>

\* lines 258-266
KbOnKeyUp ==
    /\ Running
    /\ kbPc = "reg_up"
    /\ kbPc' = "reg_down"
    /\ UNCHANGED <<fs, app, mutex, mainVars, loaderPc, txAlive, chanVars, rx, stream, devVars, cbVars>>

\* lines 267-273 without loop {} at line 274: handle_keyboard returns, the
\* callback guards and with them both Senders are dropped
KbOnKeyDown_returns ==
    /\ Running
    /\ kbPc = "reg_down"
    /\ kbPc' = "returned"
    /\ txAlive' = FALSE
    /\ UNCHANGED <<fs, app, mutex, mainVars, loaderPc, chanVars, rx, stream, devVars, cbVars>>

\* lines 267-273; the thread then stays in loop {} (line 274)
KbOnKeyDown ==
    /\ Running
    /\ kbPc = "reg_down"
    /\ kbPc' = "loop"
    /\ UNCHANGED <<fs, app, mutex, mainVars, loaderPc, txAlive, chanVars, rx, stream, devVars, cbVars>>

\* tx.send(event): Ok while the Receiver is alive, Err (the event handed
\* back and dropped) once it is not
Send(event) ==
    IF rxAlive
    THEN /\ chan' = Append(chan, event)
         /\ sent' = Append(sent, event)
         /\ UNCHANGED <<rxAlive, sendErrs>>
    ELSE /\ sendErrs' = sendErrs + 1
         /\ UNCHANGED <<rxAlive, chan, sent>>

\* lines 260-265: the key-up callback
KeyUp(key) ==
    /\ Running
    /\ kbPc \in {"reg_down", "loop"}
    /\ Len(sent) + sendErrs < MaxSends
    /\ Send(<<"Release", map_key_to_sound(key)>>)
    /\ UNCHANGED <<fs, app, mutex, mainVars, loaderPc, kbVars, rx, stream, devVars, cbVars>>

\* lines 267-273: the key-down callback
KeyDown(key) ==
    /\ Running
    /\ kbPc = "loop"
    /\ Len(sent) + sendErrs < MaxSends
    /\ Send(<<"Press", map_key_to_sound(key)>>)
    /\ UNCHANGED <<fs, app, mutex, mainVars, loaderPc, kbVars, rx, stream, devVars, cbVars>>

(***************************************************************************)
(* The program.                                                            *)
(***************************************************************************)
Next ==
    \/ MainSpawnAudio
    \/ MainSpawnKeyboard
    \/ MainJoinKeyboard
    \/ LoaderLock
    \/ LoaderLoad
    \/ LoaderUnlock
    \/ LoaderDevice
    \/ LoaderConfig
    \/ LoaderRecv
    \/ LoaderBuild
    \/ LoaderPlay
    \/ LoaderRunReturn
    \/ LoaderReturn
    \/ \E frames \in 1..MaxFrames : Callback(frames)
    \/ KbNew
    \/ KbOnKeyUp
    \/ KbOnKeyDown
    \/ \E key \in Keycode : KeyUp(key)
    \/ \E key \in Keycode : KeyDown(key)

Spec == Init /\ [][Next]_vars

(***************************************************************************)
(* The loader alone: the load phase of the program on the file systems of  *)
(* InitLoad, the capture thread not scheduled.                             *)
(***************************************************************************)
\* any directory absent, any file absent or readable, at most MaxFaulty
\* files that exist and fail
InitLoad ==
    /\ \E gone \in SUBSET Dirs, S \in FaultSets :
          \E faults \in [S -> {"noopen", "noread"}],
             rest \in [Places \ S -> {"absent", "valid"}] :
                fs = MkFs(gone, faults, rest)
    /\ InitRest

NextLoad ==
    \/ MainSpawnAudio
    \/ LoaderLock
    \/ LoaderLoad
    \/ LoaderUnlock

SpecLoad == InitLoad /\ [][NextLoad]_vars

(***************************************************************************)
(* write_data alone: one call on a buffer of any length up to MaxLen, for  *)
(* every channel count and format, next_sample drawing from the clip of a  *)
(* received event as the callback's closure does (lines 92-94).            *)
(***************************************************************************)
InitWrite ==
    /\ fs \in MainFs
    /\ load_audio_samples(AppStateNew, fs).ok
    /\ app = load_audio_samples(AppStateNew, fs).app
    /\ mutex = "free"
    /\ mainPc = "join_kb"
    /\ loaderPc = "run_ret"
    /\ kbPc = "loop"
    /\ txAlive = TRUE
    /\ rxAlive = TRUE
    /\ chan = << >>
    /\ \E event \in KeyEvent :
          /\ get_audio_data(app, event) # None
          /\ ReaderNewOk(get_audio_data(app, event)[1])
          /\ sent = <<event>>
          /\ rx = <<"Ok", event>>
    /\ sendErrs = 0
    /\ stream = "playing"
    /\ channels \in 1..MaxChannels
    /\ format \in SampleFormats
    /\ \E len \in 0..MaxLen : data = [c \in 1..len |-> None]
    /\ calls = 0
    /\ emitted = 0
    /\ triggers = 0
    /\ cbPanicked = FALSE

\* lines 92-95: the source is created and write_data is called on the buffer
WriteData ==
    /\ calls = 0
    /\ calls' = 1
    /\ triggers' = 1
    /\ data' = write_data(data, channels, Samples(CapturedClip[1]), format)
    /\ emitted' = write_data_pulls(data, channels, Samples(CapturedClip[1]), format)
    /\ UNCHANGED <<fs, app, mutex, mainVars, loaderPc, kbVars, chanVars, rx, stream,
                   devVars, cbPanicked>>

NextWrite == WriteData

SpecWrite == InitWrite /\ [][NextWrite]_vars

(***************************************************************************)
(* Notions the properties share.                                           *)
(***************************************************************************)
\* the events the program has received from the channel, in order
Received == IF rx # << >> /\ rx[1] = "Ok" THEN <<rx[2]>> ELSE << >>

\* no cell of the buffer was written
Untouched(buf) == \A c \in DOMAIN buf : buf[c] = None

\* the frames of the last callback invocation
LastFrames == IF channels = 0 THEN 0 ELSE Len(data) \div channels

\* the buffer that carries, from frame to frame, the samples of `samples`
\* from position `start` on, cyclically, each on every channel
Continued(samples, start) ==
    [c \in DOMAIN data |->
        Some(from_sample(format,
                         samples[((start + (c - 1) \div channels) % Len(samples)) + 1]))]

\* every cell of the buffer carries a sample of `samples`
EmitsOnly(buf, samples) ==
    \A c \in DOMAIN buf :
        \E k \in DOMAIN samples : buf[c] = Some(from_sample(format, samples[k]))

\* the index in `s` of the last event that has a clip, 0 if there is none
LatestMapped(s) ==
    LET I == {j \in 1..Len(s) : get_audio_data(app, s[j]) # None}
    IN  IF I = {} THEN 0 ELSE CHOOSE j \in I : \A k \in I : k <= j

\* the event has a clip and the decoder accepts it
Playable(event) ==
    /\ get_audio_data(app, event) # None
    /\ ReaderNewOk(get_audio_data(app, event)[1])

\* the sound bank holds a clip for the event's (key state, category) pair
HasClip(event) ==
    LET sounds == IF event[1] = "Press" THEN app.audio_press ELSE app.audio_release
    IN  \E k \in DOMAIN sounds : sounds[k].sound_type = event[2]

\* load_audio_samples has returned Ok
LoadedOk == loaderPc \in {"unlock", "device"}

\* the directory of a key state
DirOf(keystate) == IF keystate = "Press" THEN "press" ELSE "release"

(***************************************************************************)
(* C1.  Latest wins: while the clip of an earlier event plays, a callback  *)
(* invocation that runs after a later event with a loaded clip was sent    *)
(* emits only samples of the clip of the most recently sent mapped event.  *)
(***************************************************************************)
C1_LatestWins ==
    [][(/\ calls' = calls + 1
        /\ Len(sent) >= 2
        /\ Received = <<sent[1]>>
        /\ Playable(sent[1])
        /\ LatestMapped(sent) >= 2
        /\ Playable(sent[LatestMapped(sent)]))
       => EmitsOnly(data', Samples(get_audio_data(app, sent[LatestMapped(sent)])[1]))]_vars

(***************************************************************************)
(* C2.  Every event sent on the channel is received, in send order: once   *)
(* the consumer that received from the channel has finished, the events it *)
(* received are exactly the events sent.                                   *)
(***************************************************************************)
C2_AllSentReceived ==
    (loaderPc = "done" /\ rx # << >>) => Received = sent

(***************************************************************************)
(* C3.  The frames emitted over consecutive callback invocations continue  *)
(* the clip: the j-th frame emitted since the trigger carries clip sample  *)
(* j mod K.                                                                *)
(***************************************************************************)
C3_ContinuesAcrossCallbacks ==
    (triggers > 0 /\ ~cbPanicked /\ Samples(CapturedClip[1]) # << >>)
    => data = Continued(Samples(CapturedClip[1]), emitted - LastFrames)

C5_SilenceWritten ==
    (calls > 0 /\ triggers = 0 /\ ~cbPanicked)
    => \A c \in DOMAIN data : data[c] = Some(Equilibrium(format))

(***************************************************************************)
(* C6.  No send on the channel ever fails or drops its event.              *)
(***************************************************************************)
C6_SendNeverFails == sendErrs = 0

(***************************************************************************)
(* C7.  Once the stream plays, it and the Receiver stay alive as long as   *)
(* the capture thread runs.                                                *)
(***************************************************************************)
C7_StreamKeptAlive ==
    [][(stream = "playing" /\ kbPc' # "panicked")
       => (stream' = "playing" /\ rxAlive')]_vars

(***************************************************************************)
(* C8.  A received event creates the sample source at most once: the       *)
(* sources created never outnumber the events received.                    *)
(***************************************************************************)
C8_ConsumedOnce == triggers <= Len(Received)

(***************************************************************************)
(* C9.  After a load that returned Ok, get_audio_data returns, for a pair  *)
(* whose asset file is present, the bytes of a present file of that pair   *)
(* in the directory of its key state, and None for a pair with no file.    *)
(***************************************************************************)
C9_LookupMatchesFiles ==
    LoadedOk =>
        \A kp \in KeyEvent :
            LET dir == DirOf(kp[1])
                present == {i \in 1..Len(AUDIOFILE) :
                              AUDIOFILE[i][2] = kp[2] /\ FileExists(fs[dir][i])}
            IN  IF present = {}
                THEN get_audio_data(app, kp) = None
                ELSE \E i \in present :
                        get_audio_data(app, kp) = Some(FileBytes(dir, i, fs[dir][i]))

(***************************************************************************)
(* C10.  load_audio_samples returns an error if and only if some           *)
(* configured file exists but cannot be read.                              *)
(***************************************************************************)
C10_ErrorIffUnreadable ==
    loaderPc \in {"unlock", "device", "panicked"}
    => ((loaderPc = "panicked")
        <=> \E p \in Places : fs[p[1]][p[2]] \in {"noopen", "noread"})

\* a startup error has occurred in the load/dispatch thread: it panicked
\* (lines 238, 241, 243), or it returned having found no output device and
\* built no stream (line 240)
StartupError ==
    \/ loaderPc = "panicked"
    \/ loaderPc \in {"ret", "done"} /\ stream = "none"

(***************************************************************************)
(* C11.  When the press/ or the release/ directory is absent, the load     *)
(* does not return Ok: once load_audio_samples has returned, the thread    *)
(* has failed.                                                             *)
(***************************************************************************)
C11_MissingDirectoryIsFatal ==
    (/\ loaderPc \in {"unlock", "device", "panicked"}
     /\ \E d \in Dirs : \A i \in 1..Len(AUDIOFILE) : fs[d][i] = "nodir")
    => loaderPc = "panicked"

(***************************************************************************)
(* C12.  A callback invocation whose clip the decoder rejects does not     *)
(* panic: no panic leaves the callback.                                    *)
(***************************************************************************)
C12_DecodeFailureAbsorbed ==
    (/\ calls > 0
     /\ CapturedClip # None
     /\ ~ReaderNewOk(CapturedClip[1]))
    => ~cbPanicked

(***************************************************************************)
(* C13.  After a startup error main is not left blocked on the join of     *)
(* the capture thread, which has entered its loop and never ends.          *)
(***************************************************************************)
C13_StartupErrorTerminates ==
    ~(StartupError /\ mainPc = "join_kb" /\ kbPc = "loop")

\* the clips of a key state held by the sound bank
BankOf(keystate) == IF keystate = "Press" THEN app.audio_press ELSE app.audio_release

\* the sound bank holds a clip for every configured file of both key states
\* that can be opened, and nothing else
Populated ==
    \A keystate \in KeyPressType :
        LET dir == DirOf(keystate)
            opened == {i \in 1..Len(AUDIOFILE) : FileOpenOk(fs[dir][i])}
        IN  /\ Len(BankOf(keystate)) = Cardinality(opened)
            /\ \A i \in opened :
                  \E k \in DOMAIN BankOf(keystate) :
                      BankOf(keystate)[k] =
                          KeyboardButtonSound(AUDIOFILE[i][2], FileBytes(dir, i, fs[dir][i]))

(***************************************************************************)
(* C14.  The sound bank is fully populated before a consumer observes a    *)
(* key event: once the receive has returned or a callback has run, the     *)
(* load has gone through every configured file of both key states,         *)
(* whatever the interleaving of the threads.                               *)
(***************************************************************************)
C14_PopulatedBeforeConsume ==
    (loaderPc \in {"recv", "build", "play", "run_ret"} \/ rx # << >> \/ calls > 0)
    => (Populated /\ mutex # "loader")

\* an event was received and its clip was looked up and played, the bank
\* populated
C14_Witness ==
    /\ rx # << >>
    /\ rx[1] = "Ok"
    /\ triggers > 0
    /\ Populated

(***************************************************************************)
(* C15.  When every Sender has been dropped and the channel is empty, the  *)
(* receive completes with the end of the stream and the thread goes on     *)
(* without panicking; a callback invocation that runs after the failed     *)
(* receive consumes nothing and does not panic.                            *)
(***************************************************************************)
C15_EndOfStreamNoPanic ==
    [][/\ (loaderPc = "recv" /\ loaderPc' # "recv" /\ chan = << >>)
          => (rx' = <<"Err">> /\ loaderPc' = "build")
       /\ (rx = <<"Err">> /\ calls' = calls + 1)
          => (/\ ~cbPanicked'
              /\ Untouched(data')
              /\ mutex' = mutex
              /\ UNCHANGED <<rx, chanVars, triggers, emitted>>)]_vars

\* the receive failed and a callback has run since
C15_Witness ==
    /\ rx = <<"Err">>
    /\ ~txAlive
    /\ calls > 0
    /\ ~cbPanicked
    /\ loaderPc # "panicked"

\* the frames of a buffer: its chunks of `channels` cells, the last one
\* shorter when the length is no multiple of channels
FramesOf(buf) == (Len(buf) + channels - 1) \div channels

(***************************************************************************)
(* C16.  Fan-out: after write_data on a buffer of any length with any      *)
(* channel count of at least 1, every frame carries one value of the       *)
(* source, the same on all its channels, frame f the f-th value pulled,    *)
(* and the source has been pulled exactly once per frame.                  *)
(***************************************************************************)
C16_FanOut ==
    calls = 1 =>
        /\ emitted = FramesOf(data)
        /\ \A c \in DOMAIN data :
              data[c] = Some(from_sample(format,
                                         NextSample(Samples(CapturedClip[1]),
                                                    (c - 1) \div channels)))
        /\ \A c, d \in DOMAIN data :
              (c - 1) \div channels = (d - 1) \div channels => data[c] = data[d]

\* two channels, three frames the last of which is short, and two frames
\* that carry different values
C16_Witness ==
    /\ calls = 1
    /\ channels = 2
    /\ Len(data) = 5
    /\ emitted = 3
    /\ data[1] = data[2]
    /\ data[3] # data[1]
    /\ data[5] # data[3]

\* the category the classification assigns to a key code
CategoryOf(key) ==
    IF key \in {"Backspace", "Enter", "Space"} THEN key ELSE "Generic"

\* this step puts exactly the event on the channel
Enqueues(event) ==
    /\ chan' = Append(chan, event)
    /\ sent' = Append(sent, event)
    /\ sendErrs' = sendErrs

(***************************************************************************)
(* C17.  Classification: every key-down puts exactly one event             *)
(* (Press, c) on the channel and every key-up exactly one event            *)
(* (Release, c), c being Backspace, Enter or Space for those keys and      *)
(* Generic for every other key code.                                       *)
(***************************************************************************)
C17_OneClassifiedEventPerKey ==
    [][\A key \in Keycode :
          /\ KeyDown(key) => Enqueues(<<"Press", CategoryOf(key)>>)
          /\ KeyUp(key) => Enqueues(<<"Release", CategoryOf(key)>>)]_vars

\* the same while the Receiver is alive
C17_ClassifiedWhileReceiverAlive ==
    [][\A key \in Keycode :
          /\ (rxAlive /\ KeyDown(key)) => Enqueues(<<"Press", CategoryOf(key)>>)
          /\ (rxAlive /\ KeyUp(key)) => Enqueues(<<"Release", CategoryOf(key)>>)]_vars

(***************************************************************************)
(* C18.  The callback never waits on the lock of the sound bank: whenever  *)
(* the stream exists, so that the callback can be invoked and lock the     *)
(* mutex, no other thread holds it; the load thread holds it only during   *)
(* the load, which ends before the stream is built.                        *)
(***************************************************************************)
C18_CallbackNeverWaits ==
    /\ stream \in {"built", "playing"} => mutex # "loader"
    /\ mutex = "loader" => (loaderPc \in {"load", "unlock"} /\ stream = "none" /\ calls = 0)

\* a callback invocation has locked the mutex, found a clip and played it
C18_Witness ==
    /\ stream = "playing"
    /\ calls > 0
    /\ triggers > 0
    /\ mutex = "free"

\* the entries of AUDIOFILE of a category for which the load stored a clip of
\* the key state: the file could be opened (and, the load having returned Ok,
\* read)
StoredFor(keypress) ==
    {i \in 1..Len(AUDIOFILE) :
        AUDIOFILE[i][2] = keypress[2] /\ FileOpenOk(fs[DirOf(keypress[1])][i])}

\* the position of a file name in AUDIOFILE
IndexOf(name) == CHOOSE i \in 1..Len(AUDIOFILE) : AUDIOFILE[i][1] = name

(***************************************************************************)
(* C19.  Per key state, the lookup of a category returns the clip stored   *)
(* first in AUDIOFILE order and no other: a Generic lookup returns the     *)
(* bytes of GENERIC_R0 when its clip is stored, and those of GENERIC_R1    *)
(* only when no clip of GENERIC_R0 is stored.                              *)
(***************************************************************************)
C19_FirstLoadedWins ==
    LoadedOk =>
        /\ \A kp \in KeyEvent :
              LET dir == DirOf(kp[1])
                  stored == StoredFor(kp)
                  first == CHOOSE i \in stored : \A j \in stored : i <= j
              IN  IF stored = {}
                  THEN get_audio_data(app, kp) = None
                  ELSE get_audio_data(app, kp) = Some(FileBytes(dir, first, fs[dir][first]))
        /\ \A keystate \in KeyPressType :
              LET dir == DirOf(keystate)
                  r0 == IndexOf("GENERIC_R0.mp3")
                  r1 == IndexOf("GENERIC_R1.mp3")
                  found == get_audio_data(app, <<keystate, "Generic">>)
              IN  /\ r0 \in StoredFor(<<keystate, "Generic">>)
                     => found = Some(FileBytes(dir, r0, fs[dir][r0]))
                  /\ found = Some(FileBytes(dir, r1, fs[dir][r1]))
                     => r0 \notin StoredFor(<<keystate, "Generic">>)

\* both Generic clips of the press state are stored and the lookup returns
\* the bytes of GENERIC_R0
C19_Witness ==
    /\ LoadedOk
    /\ StoredFor(<<"Press", "Generic">>) = {IndexOf("GENERIC_R0.mp3"), IndexOf("GENERIC_R1.mp3")}
    /\ \E k, l \in DOMAIN app.audio_press :
          /\ k < l
          /\ app.audio_press[k] = KeyboardButtonSound("Generic", FileBytes("press", IndexOf("GENERIC_R0.mp3"), "valid"))
          /\ app.audio_press[l] = KeyboardButtonSound("Generic", FileBytes("press", IndexOf("GENERIC_R1.mp3"), "valid"))
    /\ get_audio_data(app, <<"Press", "Generic">>) = Some(FileBytes("press", IndexOf("GENERIC_R0.mp3"), "valid"))

\* handle_keyboard has created its DeviceState and registers its callbacks
\* or spins in loop {}
Capturing == kbPc \in {"reg_up", "reg_down", "loop"}

(***************************************************************************)
(* C20.  The capture loop never returns: once handle_keyboard has created  *)
(* its DeviceState it never ends, and once in loop {} it stays there; its  *)
(* Senders stay alive, so the receive has not completed and does not       *)
(* complete with the end of the stream, and main stays at the join of the  *)
(* capture thread.                                                         *)
(***************************************************************************)
C20_CaptureNeverReturns ==
    [][/\ Capturing => Capturing'
       /\ kbPc = "loop" => kbPc' = "loop"
       /\ Capturing' => (/\ txAlive'
                         /\ rx' # <<"Err">>
                         /\ mainPc' = "join_kb")]_vars

\* the capture thread spins in its loop, the one receive has completed with
\* an event, the playback thread has ended and main still waits
C20_Witness ==
    /\ kbPc = "loop"
    /\ txAlive
    /\ rx # << >>
    /\ rx[1] = "Ok"
    /\ loaderPc = "done"
    /\ mainPc = "join_kb"

(***************************************************************************)
(* C20 as stated, for every run: the Senders are alive at all times, the   *)
(* receive never completes with the end of the stream and main never       *)
(* ends.                                                                   *)
(***************************************************************************)
C20_BridgeNeverClosed ==
    /\ txAlive
    /\ rx # <<"Err">>
    /\ mainPc # "exited"

====
